---- MODULE Spec2Model ----
(***************************************************************************)
(* A model of the Wordle solver of src/src/main.py: the feedback encoder   *)
(* (pattern_code, pattern_to_string, string_to_pattern), the WordleSolver  *)
(* class (guess_space, expected_information, best_guess,                   *)
(* filter_candidates) and the two session loops (autoplay,                 *)
(* interactive_session).                                                   *)
(*                                                                         *)
(* A word and a feedback string are sequences of one-character strings.    *)
(* Three specifications share the variables:                               *)
(*   SpecEncoder  calls the three encoder functions on enumerated inputs;  *)
(*   SpecSolver   constructs a solver and calls its methods;               *)
(*   Spec         runs main(): a solver, then one of the session loops.    *)
(***************************************************************************)
EXTENDS Integers, Sequences, FiniteSets

VARIABLES
    words,              \* WordleSolver.words
    max_eval_guesses,   \* WordleSolver.max_eval_guesses
    full_eval_limit,    \* WordleSolver.full_eval_limit
    heuristic_ranking,  \* WordleSolver._heuristic_ranking
    freqs,              \* WordleSolver._freqs
    mode,               \* which session loop main() runs
    answer,             \* autoplay's answer
    max_steps,          \* the session's max_steps
    attempt,            \* the loop variable of the session
    candidates,         \* the session's local candidates
    guess,              \* the session's local guess
    frequency,          \* the session's local frequency (the guess's entropy)
    feedback,           \* the session's local feedback (autoplay) or code (interactive)
    remaining,          \* len(candidates) as printed with the guess
    pc,                 \* position in the running function
    output,             \* what the session printed last
    call                \* the function call under way, with its result

vars == <<words, max_eval_guesses, full_eval_limit, heuristic_ranking, freqs,
          mode, answer, max_steps, attempt, candidates, guess, frequency,
          feedback, remaining, pc, output, call>>

solver_vars == <<words, max_eval_guesses, full_eval_limit, heuristic_ranking, freqs>>

session_vars == <<mode, answer, max_steps, attempt, candidates, guess, frequency,
                  feedback, remaining, pc, output>>

-----------------------------------------------------------------------------
(* Module constants of main.py *)

word_len == 5

characters == <<"b", "y", "g">>

\* char_state = {c: i for i, c in enumerate(characters)}; indices are 0-based
char_state == [c \in {characters[i] : i \in 1..Len(characters)} |->
                 (CHOOSE i \in 1..Len(characters) : characters[i] = c) - 1]

RECURSIVE Pow(_, _)
Pow(b, e) == IF e = 0 THEN 1 ELSE b * Pow(b, e - 1)

completion == Pow(3, word_len) - 1

-----------------------------------------------------------------------------
(* Helpers standing for Python built-ins *)

Range(s) == {s[i] : i \in 1..Len(s)}

Min(a, b) == IF a < b THEN a ELSE b

\* dict.get(key, 0)
DictGet(d, k) == IF k \in DOMAIN d THEN d[k] ELSE 0

\* d[key] = value on a dict (insert or overwrite)
DictSet(d, k, v) == [x \in DOMAIN d \cup {k} |-> IF x = k THEN v ELSE d[x]]

\* del d[key]
DictDel(d, k) == [x \in DOMAIN d \ {k} |-> d[x]]

EmptyDict == [x \in {} |-> 0]

\* str.lower() on one character: the upper-case letters of the model's inputs
UpperCase == {"B", "Y", "G", "X"}

lower_char(c) ==
    CASE c = "B" -> "b"
      [] c = "Y" -> "y"
      [] c = "G" -> "g"
      [] c = "X" -> "x"
      [] OTHER -> c

lower(s) == [i \in 1..Len(s) |-> lower_char(s[i])]

-----------------------------------------------------------------------------
(* pattern_code(secret, guess) *)

\* first loop: exact marks, and the pool of the secret's unmatched letters
RECURSIVE pattern_code_pass1(_, _, _, _, _)
pattern_code_pass1(secret, guess_, idx, states, pool) ==
    IF idx > Min(Len(guess_), Len(secret))
    THEN [states |-> states, pool |-> pool]
    ELSE IF guess_[idx] = secret[idx]
         THEN pattern_code_pass1(secret, guess_, idx + 1,
                                 [states EXCEPT ![idx] = 2], pool)
         ELSE pattern_code_pass1(secret, guess_, idx + 1, states,
                                 DictSet(pool, secret[idx], DictGet(pool, secret[idx]) + 1))

\* second loop: present marks, left to right, while the pool holds the letter
RECURSIVE pattern_code_pass2(_, _, _, _)
pattern_code_pass2(guess_, idx, states, pool) ==
    IF idx > Len(guess_)
    THEN states
    ELSE IF states[idx] # 0
         THEN pattern_code_pass2(guess_, idx + 1, states, pool)
         ELSE LET left == DictGet(pool, guess_[idx]) IN
              IF left # 0
              THEN pattern_code_pass2(guess_, idx + 1, [states EXCEPT ![idx] = 1],
                        IF left = 1 THEN DictDel(pool, guess_[idx])
                                    ELSE DictSet(pool, guess_[idx], left - 1))
              ELSE pattern_code_pass2(guess_, idx + 1, states, pool)

\* the states list pattern_code packs (one of 0, 1, 2 per position)
pattern_states(secret, guess_) ==
    LET p1 == pattern_code_pass1(secret, guess_, 1, [i \in 1..word_len |-> 0], EmptyDict)
    IN  pattern_code_pass2(guess_, 1, p1.states, p1.pool)

\* third loop: value = value * 3 + state
RECURSIVE pack_states(_, _, _)
pack_states(states, idx, value) ==
    IF idx > Len(states) THEN value
    ELSE pack_states(states, idx + 1, value * 3 + states[idx])

\* a single-pass encoder: present whenever the letter occurs in the secret at all
pattern_code_single_pass(secret, guess_) ==
    pack_states([i \in 1..word_len |->
                    IF guess_[i] = secret[i] THEN 2
                    ELSE IF guess_[i] \in Range(secret) THEN 1 ELSE 0], 1, 0)

pattern_code(secret, guess_) == pack_states(pattern_states(secret, guess_), 1, 0)

-----------------------------------------------------------------------------
(* pattern_to_string(code) and string_to_pattern(pattern) *)

\* for idx in range(word_len - 1, -1, -1): idx here is 1-based
RECURSIVE pattern_to_string_loop(_, _, _)
pattern_to_string_loop(code, idx, chars) ==
    IF idx < 1 THEN chars
    ELSE pattern_to_string_loop(code \div 3, idx - 1,
                                [chars EXCEPT ![idx] = characters[(code % 3) + 1]])

\* a decoder that fills the first position from the least-significant digit
pattern_to_string_lsd_first(code) ==
    LET t == pattern_to_string_loop(code, word_len, [i \in 1..word_len |-> "b"])
    IN  [i \in 1..word_len |-> t[word_len + 1 - i]]

pattern_to_string(code) ==
    pattern_to_string_loop(code, word_len, [i \in 1..word_len |-> "b"])

\* the loop over pattern.lower(); a symbol outside char_state raises
RECURSIVE string_to_pattern_loop(_, _, _)
string_to_pattern_loop(s, idx, value) ==
    IF idx > Len(s) THEN [ok |-> TRUE, value |-> value]
    ELSE IF s[idx] \notin DOMAIN char_state
         THEN [ok |-> FALSE, error |-> "Pattern may only contain g, y, or b"]
         ELSE string_to_pattern_loop(s, idx + 1, value * 3 + char_state[s[idx]])

\* a parser without the length check
string_to_pattern_no_length_check(pattern) ==
    string_to_pattern_loop(lower(pattern), 1, 0)

\* a returned code is [ok |-> TRUE, value |-> code]; a ValueError is
\* [ok |-> FALSE, error |-> message]
string_to_pattern(pattern) ==
    IF Len(pattern) # word_len
    THEN [ok |-> FALSE, error |-> "Pattern must be five characters long"]
    ELSE string_to_pattern_loop(lower(pattern), 1, 0)

-----------------------------------------------------------------------------
(* WordleSolver: construction *)

\* letter_counts = Counter(); for word in ws: letter_counts.update(set(word))
letter_counts(ws) ==
    [ch \in UNION {Range(ws[i]) : i \in 1..Len(ws)} |->
        Cardinality({i \in 1..Len(ws) : ch \in Range(ws[i])})]

RECURSIVE SumOver(_, _)
SumOver(S, f) ==
    IF S = {} THEN 0
    ELSE LET x == CHOOSE y \in S : TRUE IN DictGet(f, x) + SumOver(S \ {x}, f)

\* the local function score(word): each distinct letter of the word counts once
score(word, counts) == SumOver(Range(word), counts)

\* sorted(ws, key=score, reverse=True): stable, so words of equal score keep
\* their order; ws[idx] goes behind every placed word whose score is not lower
RECURSIVE sorted_by_score(_, _, _, _)
sorted_by_score(ws, counts, idx, placed) ==
    IF idx > Len(ws) THEN placed
    ELSE LET s == score(ws[idx], counts)
             ahead == Cardinality({j \in 1..Len(placed) : score(placed[j], counts) >= s})
         IN  sorted_by_score(ws, counts, idx + 1,
                 SubSeq(placed, 1, ahead) \o <<ws[idx]>> \o SubSeq(placed, ahead + 1, Len(placed)))

rank_words_by_letter_coverage(ws) == sorted_by_score(ws, letter_counts(ws), 1, <<>>)

\* zipf stands for wordfreq's zipf_frequency: [available |-> TRUE, table |-> t],
\* or [available |-> FALSE] when the import failed (zipf_frequency = None);
\* external is the loaded frequency file's dict. Frequencies are in hundredths.
build_frequency_map(ws, external, zipf) ==
    [w \in Range(ws) |->
        IF w \in DOMAIN external THEN external[w]
        ELSE IF zipf.available THEN DictGet(zipf.table, w)
        ELSE 0]

-----------------------------------------------------------------------------
(* WordleSolver: methods; they read the solver's fields *)

top_candidate_words(cands, cap) ==
    IF Len(cands) <= cap THEN cands
    ELSE SubSeq(sorted_by_score(cands, letter_counts(cands), 1, <<>>), 1, cap)

\* for word in self._heuristic_ranking: break when full, skip a seen word
RECURSIVE guess_space_fill(_, _, _)
guess_space_fill(subset, seen, idx) ==
    IF idx > Len(heuristic_ranking) THEN subset
    ELSE IF Len(subset) >= max_eval_guesses THEN subset
    ELSE IF heuristic_ranking[idx] \in seen THEN guess_space_fill(subset, seen, idx + 1)
    ELSE guess_space_fill(Append(subset, heuristic_ranking[idx]),
                          seen \cup {heuristic_ranking[idx]}, idx + 1)

\* a fill that forgets the seen set
RECURSIVE guess_space_fill_unseen(_, _, _)
guess_space_fill_unseen(subset, seen, idx) ==
    IF idx > Len(heuristic_ranking) THEN subset
    ELSE IF Len(subset) >= max_eval_guesses THEN subset
    ELSE guess_space_fill_unseen(Append(subset, heuristic_ranking[idx]), seen, idx + 1)

guess_space_no_skip(cands) ==
    IF Len(cands) <= full_eval_limit THEN words
    ELSE LET subset == top_candidate_words(cands, max_eval_guesses \div 2)
         IN  guess_space_fill_unseen(subset, Range(subset), 1)

guess_space(cands) ==
    IF Len(cands) <= full_eval_limit THEN words
    ELSE LET subset == top_candidate_words(cands, max_eval_guesses \div 2)
         IN  guess_space_fill(subset, Range(subset), 1)

\* counts[pattern_code(answer, guess)] += 1 for answer in cands
RECURSIVE feedback_counts(_, _, _, _)
feedback_counts(g, cands, idx, counts) ==
    IF idx > Len(cands) THEN counts
    ELSE LET code == pattern_code(cands[idx], g)
         IN  feedback_counts(g, cands, idx + 1, DictSet(counts, code, DictGet(counts, code) + 1))

\* The entropy is kept exact. frequency -= p * log2(p) with p = count / total
\* adds (count / total) * log2(total / count), so that after the loop
\*      2 ^ (total * frequency) = num / den
\* where every bucket multiplies num by total ^ count and den by count ^ count.
\* The record [total, num, den] stands for that frequency; 0.0 is num = den.
\* For at most five candidates the floats the program computes are ordered
\* as these exact values are.
RECURSIVE entropy_sum(_, _, _, _)
entropy_sum(counts, keys, total, acc) ==
    IF keys = {} THEN acc
    ELSE LET k == CHOOSE x \in keys : TRUE
             count == counts[k]
         IN  entropy_sum(counts, keys \ {k}, total,
                         [acc EXCEPT !.num = @ * Pow(total, count),
                                     !.den = @ * Pow(count, count)])

\* an evaluator that divides by the number of buckets: total = len(counts)
expected_information_bucket_total(g, cands) ==
    LET counts == feedback_counts(g, cands, 1, EmptyDict)
    IN  entropy_sum(counts, DOMAIN counts, Cardinality(DOMAIN counts),
                    [total |-> Cardinality(DOMAIN counts), num |-> 1, den |-> 1])

expected_information(g, cands) ==
    LET counts == feedback_counts(g, cands, 1, EmptyDict)
    IN  entropy_sum(counts, DOMAIN counts, Len(cands),
                    [total |-> Len(cands), num |-> 1, den |-> 1])

\* float comparison of two entropies over the same candidates
EntropyEq(f1, f2) == f1.num * f2.den = f2.num * f1.den

EntropyGt(f1, f2) == f1.num * f2.den > f2.num * f1.den

\* tuple comparison metadata > best_key on (float, bool, float); False < True
KeyGt(k1, k2) ==
    \/ EntropyGt(k1[1], k2[1])
    \/ /\ EntropyEq(k1[1], k2[1])
       /\ \/ (k1[2] /\ ~k2[2])
          \/ (k1[2] = k2[2] /\ k1[3] > k2[3])

\* metadata = (frequency, guess in candidate_set, self._freqs.get(guess, 0.0))
metadata(g, cands) ==
    <<expected_information(g, cands), g \in Range(cands), DictGet(freqs, g)>>

\* best_word = None, best_key = None
NoBest == [set |-> FALSE]

\* the loop of best_guess; best is NoBest or [set |-> TRUE, word, key]
RECURSIVE best_guess_loop(_, _, _, _)
best_guess_loop(guess_pool, cands, idx, best) ==
    IF idx > Len(guess_pool) THEN best
    ELSE LET key == metadata(guess_pool[idx], cands)
         IN  IF ~best.set \/ KeyGt(key, best.key)
             THEN best_guess_loop(guess_pool, cands, idx + 1,
                                  [set |-> TRUE, word |-> guess_pool[idx], key |-> key])
             ELSE best_guess_loop(guess_pool, cands, idx + 1, best)

\* a selector whose key leaves out the membership flag
RECURSIVE best_guess_loop_no_member(_, _, _, _)
best_guess_loop_no_member(guess_pool, cands, idx, best) ==
    IF idx > Len(guess_pool) THEN best
    ELSE LET key == metadata(guess_pool[idx], cands)
         IN  IF ~best.set \/ KeyGt(<<key[1], FALSE, key[3]>>,
                                       <<best.key[1], FALSE, best.key[3]>>)
             THEN best_guess_loop_no_member(guess_pool, cands, idx + 1,
                                            [set |-> TRUE, word |-> guess_pool[idx], key |-> key])
             ELSE best_guess_loop_no_member(guess_pool, cands, idx + 1, best)

best_guess_no_member(cands) ==
    LET best == best_guess_loop_no_member(guess_space(cands), cands, 1, NoBest)
    IN  IF ~best.set
        THEN [ok |-> FALSE, error |-> "Failed to select a guess"]
        ELSE [ok |-> TRUE, word |-> best.word, frequency |-> best.key[1]]

\* (best_word, best_key[0]) is [ok |-> TRUE, word, frequency]; the
\* RuntimeError is [ok |-> FALSE, error]
best_guess(cands) ==
    LET best == best_guess_loop(guess_space(cands), cands, 1, NoBest)
    IN  IF ~best.set
        THEN [ok |-> FALSE, error |-> "Failed to select a guess"]
        ELSE [ok |-> TRUE, word |-> best.word, frequency |-> best.key[1]]

\* a filter that encodes the guess against the word, arguments swapped
filter_candidates_swapped(cands, g, feedback_code) ==
    SelectSeq(cands, LAMBDA word : pattern_code(g, word) = feedback_code)

\* a filter that starts again from the solver's whole word list
filter_candidates_from_words(cands, g, feedback_code) ==
    SelectSeq(words, LAMBDA word : pattern_code(word, g) = feedback_code)

\* [word for word in cands if pattern_code(word, guess) == feedback_code]
filter_candidates(cands, g, feedback_code) ==
    SelectSeq(cands, LAMBDA word : pattern_code(word, g) = feedback_code)

-----------------------------------------------------------------------------
(* Inputs of the encoder's calls *)

NumLetters == 2

LetterSeq == <<"a", "e", "s", "t", "r">>

Letters == {LetterSeq[i] : i \in 1..NumLetters}

\* every word of word_len letters over Letters
LetterWords == [1..word_len -> Letters]

Codes == 0..completion

ValidPatterns == {pattern_to_string(c) : c \in Codes}

OddChars == {"G", "Y", "B", "x", "X"}

\* what a caller may pass to string_to_pattern: the valid strings, the same in
\* upper case, with one symbol replaced, one symbol short, one symbol long, empty
PatternInputs ==
    ValidPatterns
    \cup {[i \in 1..word_len |-> IF s[i] = "g" THEN "G" ELSE IF s[i] = "y" THEN "Y" ELSE "B"] :
            s \in ValidPatterns}
    \cup {[s EXCEPT ![i] = ch] : s \in ValidPatterns, i \in 1..word_len, ch \in OddChars}
    \cup {SubSeq(s, 1, word_len - 1) : s \in ValidPatterns}
    \cup {Append(s, ch) : s \in ValidPatterns, ch \in {"b", "G"}}
    \cup {<<>>}

Idle == [op |-> "none"]

NoSolver ==
    /\ words = <<>>
    /\ max_eval_guesses = 0
    /\ full_eval_limit = 0
    /\ heuristic_ranking = <<>>
    /\ freqs = EmptyDict

NoSession ==
    /\ mode = "none"
    /\ answer = <<>>
    /\ max_steps = 0
    /\ attempt = 0
    /\ candidates = <<>>
    /\ guess = <<>>
    /\ frequency = [total |-> 0, num |-> 1, den |-> 1]
    /\ feedback = 0
    /\ remaining = 0
    /\ pc = "none"
    /\ output = "none"

-----------------------------------------------------------------------------
(* SpecEncoder: calls of the encoder functions *)

InitEncoder == NoSolver /\ NoSession /\ call = Idle

PatternCodeCall ==
    /\ call = Idle
    /\ \E secret \in LetterWords, g \in LetterWords :
         call' = [op |-> "pattern_code", secret |-> secret, guess |-> g,
                  result |-> pattern_code(secret, g)]
    /\ UNCHANGED <<solver_vars, session_vars>>

PatternToStringCall ==
    /\ call = Idle
    /\ \E c \in Codes :
         call' = [op |-> "pattern_to_string", code |-> c, result |-> pattern_to_string(c)]
    /\ UNCHANGED <<solver_vars, session_vars>>

StringToPatternCall ==
    /\ call = Idle
    /\ \E s \in PatternInputs :
         call' = [op |-> "string_to_pattern", pattern |-> s, result |-> string_to_pattern(s)]
    /\ UNCHANGED <<solver_vars, session_vars>>

\* the call returns to its caller
Return ==
    /\ call # Idle
    /\ call' = Idle
    /\ UNCHANGED <<solver_vars, session_vars>>

NextEncoder == PatternCodeCall \/ PatternToStringCall \/ StringToPatternCall \/ Return

SpecEncoder == InitEncoder /\ [][NextEncoder]_vars

-----------------------------------------------------------------------------
(* SpecSolver: a constructed solver and calls of its methods *)

crane == <<"c", "r", "a", "n", "e">>

trace == <<"t", "r", "a", "c", "e">>

slate == <<"s", "l", "a", "t", "e">>

eerie == <<"e", "e", "r", "i", "e">>

speed == <<"s", "p", "e", "e", "d">>

Dictionary == {crane, trace, slate, eerie}

MaxWords == 3

\* the word lists load_words can return: non-empty, in any order, a line of
\* the file may repeat
WordLists == UNION {[1..n -> Dictionary] : n \in 1..MaxWords}

DefaultMaxEvalGuesses == 900

DefaultFullEvalLimit == 1500

SmallFullEvalLimit == 1

MaxSmallEvalGuesses == 4

\* (full_eval_limit, max_eval_guesses): the defaults, or small values under
\* which the lists of the model are pruned
SolverParams ==
    {<<DefaultFullEvalLimit, DefaultMaxEvalGuesses>>}
    \cup {<<SmallFullEvalLimit, m>> : m \in 0..MaxSmallEvalGuesses}

FrequencyTable == [w \in {crane, trace, slate} |->
                     IF w = crane THEN 352 ELSE 431]

NoZipf == [available |-> FALSE]

\* WordleSolver(ws, max_eval_guesses=.., full_eval_limit=.., frequencies=..)
Construct(ws, params, external, zipf) ==
    /\ words = ws
    /\ full_eval_limit = params[1]
    /\ max_eval_guesses = params[2]
    /\ heuristic_ranking = rank_words_by_letter_coverage(ws)
    /\ freqs = build_frequency_map(ws, external, zipf)

InitSolver ==
    /\ \E ws \in WordLists, params \in SolverParams, external \in {EmptyDict, FrequencyTable} :
         /\ Construct(ws, params, external, NoZipf)
         /\ candidates = ws
    /\ mode = "none"
    /\ answer = <<>>
    /\ max_steps = 0
    /\ attempt = 0
    /\ guess = <<>>
    /\ frequency = [total |-> 0, num |-> 1, den |-> 1]
    /\ feedback = 0
    /\ remaining = 0
    /\ pc = "none"
    /\ output = "none"
    /\ call = Idle

caller_vars == <<mode, answer, max_steps, attempt, guess, frequency, feedback, remaining,
                 pc, output>>

\* the feedback codes a caller passes with guess g: what a word could produce
FeedbackChoices(g) == {pattern_code(w, g) : w \in Dictionary} \cup {0}

\* the caller keeps the result as its pool, as the session loops do
FilterCandidatesCall ==
    /\ call = Idle
    /\ \E g \in Dictionary : \E fb \in FeedbackChoices(g) :
         \E result \in {filter_candidates(candidates, g, fb)} :
         /\ call' = [op |-> "filter_candidates", candidates |-> candidates, guess |-> g,
                     feedback |-> fb, result |-> result]
         /\ candidates' = result
    /\ UNCHANGED <<solver_vars, caller_vars>>

GuessSpaceCall ==
    /\ call = Idle
    /\ call' = [op |-> "guess_space", candidates |-> candidates,
                result |-> guess_space(candidates)]
    /\ UNCHANGED <<solver_vars, session_vars>>

ExpectedInformationCall ==
    /\ call = Idle
    /\ \E g \in Dictionary :
         call' = [op |-> "expected_information", guess |-> g, candidates |-> candidates,
                  result |-> expected_information(g, candidates)]
    /\ UNCHANGED <<solver_vars, session_vars>>

BestGuessCall ==
    /\ call = Idle
    /\ call' = [op |-> "best_guess", candidates |-> candidates,
                result |-> best_guess(candidates)]
    /\ UNCHANGED <<solver_vars, session_vars>>

NextSolver ==
    \/ FilterCandidatesCall
    \/ GuessSpaceCall
    \/ ExpectedInformationCall
    \/ BestGuessCall
    \/ Return

SpecSolver == InitSolver /\ [][NextSolver]_vars

-----------------------------------------------------------------------------
(* Spec: main() constructs a solver with the default limits and runs autoplay *)
(* or interactive_session                                                     *)

MaxSteps == 3

\* --answer values: words of the list or not, and one that is too short
Answers == Dictionary \cup {speed, <<"e", "e", "l">>}

\* str.strip() for the blank of the model's inputs
RECURSIVE strip(_)
strip(s) ==
    IF s = <<>> THEN s
    ELSE IF Head(s) = " " THEN strip(Tail(s))
    ELSE IF s[Len(s)] = " " THEN strip(SubSeq(s, 1, Len(s) - 1))
    ELSE s

\* what the user may type after guess g: the feedback of some word, right or
\* wrong for the pool, also in upper case or with a blank, and malformed lines
TypedInputs(g) ==
    {pattern_to_string(pattern_code(w, g)) : w \in Dictionary \cup {speed}}
    \cup {<<"B", "b", "B", "b", "B">>, <<"g", "g", "g", "g", "g", " ">>,
          <<"g", "y">>, <<"g", "x", "b", "b", "b">>}

Init ==
    /\ \E ws \in WordLists, external \in {EmptyDict, FrequencyTable} :
         Construct(ws, <<DefaultFullEvalLimit, DefaultMaxEvalGuesses>>, external, NoZipf)
    /\ \/ mode = "autoplay" /\ answer \in Answers
       \/ mode = "interactive" /\ answer = <<>>
    /\ max_steps \in 1..MaxSteps
    /\ attempt = 0
    /\ candidates = <<>>
    /\ guess = <<>>
    /\ frequency = [total |-> 0, num |-> 1, den |-> 1]
    /\ feedback = 0
    /\ remaining = 0
    /\ pc = "start"
    /\ output = "none"
    /\ call = Idle

\* autoplay lines 211-214, interactive_session lines 229-230
StartSession ==
    /\ pc = "start"
    /\ IF mode = "autoplay" /\ Len(lower(answer)) # word_len
       THEN /\ output' = "ValueError: Answer must be a five-letter word"
            /\ pc' = "done"
            /\ UNCHANGED <<answer, candidates>>
       ELSE /\ answer' = lower(answer)
            /\ candidates' = words
            /\ output' = IF mode = "interactive" THEN "Enter feedback" ELSE output
            /\ pc' = "loop"
    /\ UNCHANGED <<solver_vars, mode, max_steps, attempt, guess, frequency, feedback,
                   remaining, call>>

\* one iteration of autoplay's loop
AutoplayTurn ==
    /\ pc = "loop"
    /\ mode = "autoplay"
    /\ attempt < max_steps
    /\ attempt' = attempt + 1
    /\ \E r \in {best_guess(candidates)} :
       IF ~r.ok
       THEN /\ output' = "RuntimeError: Failed to select a guess"
            /\ pc' = "done"
            /\ UNCHANGED <<candidates, guess, frequency, feedback, remaining>>
       ELSE /\ guess' = r.word
            /\ frequency' = r.frequency
            /\ feedback' = pattern_code(answer, r.word)
            /\ remaining' = Len(candidates)
            /\ output' = "Guess"
            /\ candidates' = filter_candidates(candidates, r.word, pattern_code(answer, r.word))
            /\ pc' = "loop"
    /\ UNCHANGED <<solver_vars, mode, answer, max_steps, call>>

\* autoplay's loop is over: line 225
AutoplayEnd ==
    /\ pc = "loop"
    /\ mode = "autoplay"
    /\ attempt >= max_steps
    /\ output' = "Failed to crack the word within the allotted steps."
    /\ pc' = "done"
    /\ UNCHANGED <<solver_vars, mode, answer, max_steps, attempt, candidates, guess,
                   frequency, feedback, remaining, call>>

\* one iteration of interactive_session's loop, with the line the user types
InteractiveTurn ==
    /\ pc = "loop"
    /\ mode = "interactive"
    /\ attempt < max_steps
    /\ attempt' = attempt + 1
    /\ \E r \in {best_guess(candidates)} :
       IF ~r.ok
       THEN /\ output' = "RuntimeError: Failed to select a guess"
            /\ pc' = "done"
            /\ UNCHANGED <<candidates, guess, frequency, feedback, remaining>>
       ELSE /\ guess' = r.word
            /\ frequency' = r.frequency
            /\ remaining' = Len(candidates)
            /\ \E typed \in TypedInputs(r.word) :
                 \E code \in {string_to_pattern(lower(strip(typed)))} :
                 IF ~code.ok
                 THEN /\ output' = "Invalid pattern"
                      /\ pc' = "done"
                      /\ UNCHANGED <<candidates, feedback>>
                 ELSE IF code.value = completion
                 THEN /\ output' = "Congratulations! Word identified."
                      /\ pc' = "done"
                      /\ feedback' = code.value
                      /\ UNCHANGED candidates
                 ELSE /\ feedback' = code.value
                      /\ candidates' = filter_candidates(candidates, r.word, code.value)
                      /\ IF filter_candidates(candidates, r.word, code.value) = <<>>
                         THEN /\ output' = "No candidates left. Did the feedback contain a mistake?"
                              /\ pc' = "done"
                         ELSE /\ output' = "Guess"
                              /\ pc' = "loop"
    /\ UNCHANGED <<solver_vars, mode, answer, max_steps, call>>

\* interactive_session's loop is over: the function returns
InteractiveEnd ==
    /\ pc = "loop"
    /\ mode = "interactive"
    /\ attempt >= max_steps
    /\ pc' = "done"
    /\ UNCHANGED <<solver_vars, mode, answer, max_steps, attempt, candidates, guess,
                   frequency, feedback, remaining, output, call>>

Next ==
    \/ StartSession
    \/ AutoplayTurn
    \/ AutoplayEnd
    \/ InteractiveTurn
    \/ InteractiveEnd

Spec == Init /\ [][Next]_vars

-----------------------------------------------------------------------------
(* Properties of the encoder *)

\* the base-3 digit of code at position i, position 1 the most significant
Digit(code, i) == (code \div Pow(3, word_len - i)) % 3

\* the positions of word w that hold letter c and satisfy mark test P
Positions(w, c, code, marks) ==
    {i \in 1..word_len : w[i] = c /\ Digit(code, i) \in marks}

\* C2: pattern_code marks position i exact iff guess[i] = hidden[i]; for every
\* letter c the present marks on c are as many as the smaller of c's unmatched
\* occurrences in hidden and c's non-exact occurrences in guess (so never more
\* than hidden has unmatched), they sit on the leftmost non-exact occurrences
\* of c in guess, and every other position is absent.
C2_PatternCodeMarks ==
    call.op = "pattern_code" =>
        LET h == call.secret
            g == call.guess
            code == call.result
        IN  /\ code \in Codes
            /\ \A i \in 1..word_len : (Digit(code, i) = 2) <=> (g[i] = h[i])
            /\ \A c \in Range(g) :
                 LET present == Positions(g, c, code, {1})
                     nonexact == Positions(g, c, code, {0, 1})
                     unmatched == Positions(h, c, code, {0, 1})
                 IN  /\ Cardinality(present) <= Cardinality(unmatched)
                     /\ Cardinality(present) =
                            Min(Cardinality(unmatched), Cardinality(nonexact))
                     /\ \A i \in nonexact, j \in present : i < j => i \in present

\* a guess repeats a letter more often than the hidden word has it unmatched:
\* the leftmost occurrences are present and a later one is absent
C2_Witness ==
    /\ call.op = "pattern_code"
    /\ \E c \in Range(call.guess) :
         /\ Cardinality(Positions(call.guess, c, call.result, {1})) = 2
         /\ Cardinality(Positions(call.guess, c, call.result, {0})) >= 1
         /\ Cardinality(Positions(call.guess, c, call.result, {2})) = 0

\* C7: string_to_pattern(pattern_to_string(c)) = c for every code c, and
\* pattern_to_string(c) has exactly word_len characters, each of b, y, g.
C7_RoundTrip ==
    call.op = "pattern_to_string" =>
        /\ string_to_pattern(call.result) = [ok |-> TRUE, value |-> call.code]
        /\ Len(call.result) = word_len
        /\ Range(call.result) \subseteq {"b", "y", "g"}

\* a code whose digits are not a palindrome has been decoded
C7_Witness ==
    /\ call.op = "pattern_to_string"
    /\ Digit(call.code, 1) # Digit(call.code, word_len)
    /\ call.result[1] = "g"

\* C8 as stated: a code is returned only when the string has length word_len
\* and every symbol is one of b, y, g; every other string raises.
C8_Original ==
    call.op = "string_to_pattern" =>
        /\ call.result.ok <=>
              (Len(call.pattern) = word_len /\ Range(call.pattern) \subseteq {"b", "y", "g"})
        /\ call.result.ok => call.result.value \in Codes

\* C8 amended: a code is returned exactly when the string has length word_len
\* and every symbol, lower-cased, is one of b, y, g; every other string raises.
C8_CaseInsensitive ==
    call.op = "string_to_pattern" =>
        /\ call.result.ok <=>
              /\ Len(call.pattern) = word_len
              /\ \A i \in 1..Len(call.pattern) :
                    lower_char(call.pattern[i]) \in {"b", "y", "g"}
        /\ call.result.ok => call.result.value \in Codes
        /\ ~call.result.ok =>
              call.result.error \in {"Pattern must be five characters long",
                                     "Pattern may only contain g, y, or b"}

\* an upper-case string has been parsed to a code, as its lower-case form is
C8_Witness ==
    /\ call.op = "string_to_pattern"
    /\ call.result.ok
    /\ \E i \in 1..Len(call.pattern) : call.pattern[i] \in UpperCase
    /\ call.result = string_to_pattern(lower(call.pattern))

-----------------------------------------------------------------------------
(* Properties of the solver's methods *)

\* a is b with some entries left out, the others in b's order
RECURSIVE IsSubsequence(_, _)
IsSubsequence(a, b) ==
    IF a = <<>> THEN TRUE
    ELSE IF b = <<>> THEN FALSE
    ELSE IF Head(a) = Head(b) THEN IsSubsequence(Tail(a), Tail(b))
    ELSE IsSubsequence(a, Tail(b))

Count(seq, w) == Cardinality({i \in 1..Len(seq) : seq[i] = w})

NoDuplicates(seq) == \A i, j \in 1..Len(seq) : i # j => seq[i] # seq[j]

\* C1: filter_candidates(candidates, guess, feedback) is exactly the entries w
\* of candidates with pattern_code(w, guess) = feedback, in the order they have
\* in candidates: its k-th entry is the k-th such entry of candidates.
C1_FilterExact ==
    call.op = "filter_candidates" =>
        LET c == call.candidates
            r == call.result
            kept == {i \in 1..Len(c) : pattern_code(c[i], call.guess) = call.feedback}
        IN  /\ Len(r) = Cardinality(kept)
            /\ Len(r) <= Len(c)
            /\ \A k \in 1..Len(r) :
                 \E i \in kept : /\ Cardinality({j \in kept : j <= i}) = k
                                 /\ r[k] = c[i]

\* a filter dropped a word and kept two different ones
C1_Witness ==
    /\ call.op = "filter_candidates"
    /\ Len(call.result) >= 2
    /\ Len(call.result) < Len(call.candidates)
    /\ call.result[1] # call.result[2]

\* C5: best_guess returns a word of the scoring pool whose key (entropy against
\* the full candidates, membership in candidates, frequency) no pooled word
\* exceeds in lexicographic order; so a pooled word outside candidates is not
\* returned when a pooled candidate has the same entropy. With an empty
\* scoring pool it raises.
C5_BestGuessMaximal ==
    call.op = "best_guess" =>
        LET c == call.candidates
            r == call.result
            guess_pool == guess_space(c)
        IN  /\ r.ok <=> guess_pool # <<>>
            /\ r.ok =>
                 /\ r.word \in Range(guess_pool)
                 /\ r.frequency = expected_information(r.word, c)
                 /\ \A w \in Range(guess_pool) :
                      LET hw == expected_information(w, c)
                          hr == r.frequency
                      IN  /\ hw.num * hr.den <= hr.num * hw.den
                          /\ hw.num * hr.den = hr.num * hw.den =>
                               /\ (w \in Range(c)) => (r.word \in Range(c))
                               /\ ((w \in Range(c)) <=> (r.word \in Range(c))) =>
                                     DictGet(freqs, w) <= DictGet(freqs, r.word)

\* a probe word outside candidates comes first in the pool with the same
\* positive entropy as the candidate that is returned
C5_Witness ==
    /\ call.op = "best_guess"
    /\ call.result.ok
    /\ call.result.word \in Range(call.candidates)
    /\ call.result.frequency.num > call.result.frequency.den
    /\ LET guess_pool == guess_space(call.candidates) IN
       \E i, j \in 1..Len(guess_pool) :
         /\ i < j
         /\ guess_pool[j] = call.result.word
         /\ guess_pool[i] \notin Range(call.candidates)
         /\ EntropyEq(expected_information(guess_pool[i], call.candidates),
                      call.result.frequency)

\* C6: expected_information is never negative; it is 0 exactly when all
\* candidates produce one feedback code against the guess, which is exactly
\* when filtering by any code a candidate produces returns candidates
\* unchanged; with two or more feedback buckets it is positive.
C6_EntropyZeroIffOneBucket ==
    call.op = "expected_information" =>
        LET c == call.candidates
            g == call.guess
            h == call.result
            buckets == {pattern_code(c[i], g) : i \in 1..Len(c)}
        IN  /\ h.num >= h.den
            /\ (h.num = h.den) <=> (Cardinality(buckets) <= 1)
            /\ (h.num = h.den) <=> (\A fb \in buckets : filter_candidates(c, g, fb) = c)
            /\ Cardinality(buckets) >= 2 => h.num > h.den

\* two different candidates give one feedback code: the entropy is 0
C6_Witness ==
    /\ call.op = "expected_information"
    /\ call.result.num = call.result.den
    /\ Len(call.candidates) >= 2
    /\ call.candidates[1] # call.candidates[2]

\* what C10 says of every pruned pool but the absence of repeats
PrunedPoolShape(c, guess_pool) ==
    LET cap == max_eval_guesses \div 2
        k == Min(cap, Len(c))
        lead == SubSeq(guess_pool, 1, k)
        rest == SubSeq(guess_pool, k + 1, Len(guess_pool))
        counts == letter_counts(c)
    IN  /\ Len(guess_pool) <= max_eval_guesses
        /\ Len(guess_pool) >= k
        \* the leading entries are k of the candidates, none of the others
        \* scoring higher, best first when some candidate is left out
        /\ \A w \in Range(lead) : Count(lead, w) <= Count(c, w)
        /\ \A w \in Range(c), v \in Range(lead) :
             Count(lead, w) < Count(c, w) => score(w, counts) <= score(v, counts)
        /\ Len(c) > cap =>
             \A i, j \in 1..k : i < j => score(lead[i], counts) >= score(lead[j], counts)
        \* the rest comes from the heuristic ranking, in its order, until the
        \* pool is full or the ranking is used up
        /\ IsSubsequence(rest, heuristic_ranking)
        /\ Len(guess_pool) < max_eval_guesses => Range(words) \subseteq Range(guess_pool)

\* C10 as stated: the whole word list up to full_eval_limit candidates;
\* above it a pruned pool in which no word appears twice.
C10_Original ==
    call.op = "guess_space" =>
        IF Len(call.candidates) <= full_eval_limit
        THEN call.result = words
        ELSE /\ PrunedPoolShape(call.candidates, call.result)
             /\ NoDuplicates(call.result)

\* C10 amended: the whole word list up to full_eval_limit candidates; above it
\* a pruned pool in which no entry filled from the heuristic ranking repeats
\* another entry, so that a word appears twice only as a leading candidate
\* that candidates itself holds twice.
C10_FillSkipsDuplicates ==
    call.op = "guess_space" =>
        IF Len(call.candidates) <= full_eval_limit
        THEN call.result = words
        ELSE LET k == Min(max_eval_guesses \div 2, Len(call.candidates)) IN
             /\ PrunedPoolShape(call.candidates, call.result)
             /\ \A i, j \in 1..Len(call.result) :
                  (i # j /\ j > k) => call.result[i] # call.result[j]
             /\ NoDuplicates(call.candidates) => NoDuplicates(call.result)

\* a pruned pool: leading candidates, then a fill that skipped a ranked word
\* already in the pool
C10_Witness ==
    /\ call.op = "guess_space"
    /\ Len(call.candidates) > full_eval_limit
    /\ max_eval_guesses \div 2 >= 1
    /\ Len(call.candidates) > max_eval_guesses \div 2
    /\ Len(call.result) > max_eval_guesses \div 2
    /\ heuristic_ranking[1] = call.result[1]
    /\ Len(call.result) = max_eval_guesses
    /\ Len(call.result) < Len(words)

-----------------------------------------------------------------------------
(* Properties of the session loops *)

\* C3: in both session loops the pool starts as the full word list, and after
\* every turn it is a subsequence of the pool before the turn and holds only
\* words of the word list: it never regrows.
C3_PoolOnlyShrinks ==
    [][/\ (pc = "start" /\ pc' = "loop") => candidates' = words
       /\ pc = "loop" => /\ IsSubsequence(candidates', candidates)
                         /\ Range(candidates') \subseteq Range(words)]_vars

\* after two turns the pool has lost words and is not empty
C3_Witness ==
    /\ attempt >= 2
    /\ candidates # <<>>
    /\ Len(candidates) < Len(words)
    /\ Len(words) = MaxWords

\* C4: in autoplay, where every feedback is pattern_code(answer, guess), an
\* answer of the word list is in the pool after any number of turns.
C4_AnswerStaysInPool ==
    (mode = "autoplay" /\ pc # "start" /\ answer \in Range(words)) =>
        answer \in Range(candidates)

\* autoplay has filtered words out of the pool and the answer is still in it
C4_Witness ==
    /\ mode = "autoplay"
    /\ attempt >= 1
    /\ guess # answer
    /\ feedback # completion
    /\ answer \in Range(candidates)
    /\ Len(candidates) < Len(words)

\* C9: an empty pool ends the session with a report, and no guess is made on
\* an empty pool (every guess is printed with a positive pool size).
C9_EmptyPoolSurfaced ==
    /\ (pc = "done" /\ candidates = <<>> /\ attempt >= 1) =>
          output = "No candidates left. Did the feedback contain a mistake?"
    /\ attempt >= 1 => remaining > 0

\* the part of C9 the code keeps: interactive_session reports the empty pool
\* and returns
C9_InteractiveSurfaced ==
    mode = "interactive" =>
        /\ (pc # "start" /\ candidates = <<>>) =>
              (pc = "done" /\ output = "No candidates left. Did the feedback contain a mistake?")
        /\ attempt >= 1 => remaining > 0

\* autoplay guesses on an empty pool
C9_GuessOnEmptyPool ==
    /\ mode = "autoplay"
    /\ attempt >= 2
    /\ remaining = 0
    /\ output = "Guess"

====
